---- MODULE Spec2Model ----
(***************************************************************************)
(* Model of the edge-tts client: connect() (src/lib/connect.ts) and        *)
(* generate() (src/lib/generate.ts).                                       *)
(*                                                                         *)
(* Strings are sequences of UTF-16 code units, byte arrays are sequences   *)
(* of bytes; both are written as tuples of integers.  JavaScript indices   *)
(* are 0-based and are kept 0-based in the operators that return them.     *)
(* Every event listener runs to completion (one action per listener); the  *)
(* only place where a listener is suspended and other events are admitted  *)
(* is `await blob.arrayBuffer()` inside dealRawAudioChunks.                *)
(***************************************************************************)
EXTENDS Integers, Sequences, FiniteSets, TLC

\* ------------------------------------------------------------------------
\* Bounds of the model

\* number of inbound frames delivered to the message listener of generate()
MaxFrames == 4

\* number of inbound frames on the runs checked for progress
MaxLiveFrames == 3

\* ------------------------------------------------------------------------
\* Program constants

\* "Path:audio\r\n"
separator == <<80, 97, 116, 104, 58, 97, 117, 100, 105, 111, 13, 10>>

\* "content-length: ", the literal part of /Content-Length: (\d+)/i, folded
ContentLengthKey ==
  <<99, 111, 110, 116, 101, 110, 116, 45, 108, 101, 110, 103, 116, 104, 58, 32>>

\* "Path:audio.metadata"
MetadataMarker ==
  <<80, 97, 116, 104, 58, 97, 117, 100, 105, 111, 46, 109, 101, 116, 97, 100, 97, 116, 97>>

\* "Path:turn.end"
TurnEndMarker == <<80, 97, 116, 104, 58, 116, 117, 114, 110, 46, 101, 110, 100>>

\* setTimeout delays, in seconds, as they appear in the rejection messages
ConnectTimeoutSeconds == 10
GenerateTimeoutSeconds == 30

\* U+FFFD, what TextDecoder emits for a byte that is not valid UTF-8
ReplacementChar == 65533

\* ------------------------------------------------------------------------
\* String and byte helpers (JavaScript semantics)

\* s.substring(from) / bytes.subarray(from): 0-based start, to the end
SubFrom(s, from) ==
  IF from >= Len(s) THEN <<>> ELSE SubSeq(s, from + 1, Len(s))

\* s.substring(0, to): 0-based, `to` excluded
SubTo(s, to) == SubSeq(s, 1, to)

MatchesAt(s, pat, i) ==
  /\ i + Len(pat) <= Len(s)
  /\ \A k \in 1..Len(pat) : s[i + k] = pat[k]

\* String.prototype.indexOf: 0-based index of the first occurrence, or -1
IndexOf(s, pat) ==
  LET hits == {i \in 0..Len(s) : MatchesAt(s, pat, i)}
  IN  IF hits = {} THEN -1 ELSE CHOOSE i \in hits : \A j \in hits : i <= j

\* String.prototype.includes
Includes(s, pat) == IndexOf(s, pat) # -1

\* s.split(pat)[1]: the text between the first and the second occurrence of
\* pat (or the end of s); only used where Includes(s, pat) holds
SplitSecond(s, pat) ==
  LET rest == SubFrom(s, IndexOf(s, pat) + Len(pat))
      next == IndexOf(rest, pat)
  IN  IF next = -1 THEN rest ELSE SubTo(rest, next)

IsWhiteSpace(c) == c \in {9, 10, 11, 12, 13, 32}

RECURSIVE TrimStart(_)
TrimStart(s) ==
  IF s # <<>> /\ IsWhiteSpace(Head(s)) THEN TrimStart(Tail(s)) ELSE s

RECURSIVE TrimEnd(_)
TrimEnd(s) ==
  IF s # <<>> /\ IsWhiteSpace(s[Len(s)]) THEN TrimEnd(SubSeq(s, 1, Len(s) - 1)) ELSE s

\* String.prototype.trim
Trim(s) == TrimEnd(TrimStart(s))

\* new TextDecoder().decode(bytes) for bytes below 0xE0: an ASCII byte is one
\* code unit, a two-byte sequence (lead 0xC2..0xDF, continuation 0x80..0xBF)
\* is ONE code unit, any other byte is replaced by U+FFFD
RECURSIVE TextDecode(_)
TextDecode(bytes) ==
  IF bytes = <<>> THEN <<>>
  ELSE IF bytes[1] < 128 THEN <<bytes[1]>> \o TextDecode(Tail(bytes))
  ELSE IF /\ bytes[1] \in 194..223
          /\ Len(bytes) >= 2
          /\ bytes[2] \in 128..191
       THEN <<(bytes[1] - 192) * 64 + (bytes[2] - 128)>> \o TextDecode(SubFrom(bytes, 2))
  ELSE <<ReplacementChar>> \o TextDecode(Tail(bytes))

\* case folding of the /i flag on ASCII letters
ToLower(c) == IF c \in 65..90 THEN c + 32 ELSE c

IsDigit(c) == c \in 48..57

\* the maximal run of digits of s that starts at 0-based index i
RECURSIVE DigitRun(_, _)
DigitRun(s, i) ==
  IF i < Len(s) /\ IsDigit(s[i + 1]) THEN <<s[i + 1]>> \o DigitRun(s, i + 1) ELSE <<>>

\* parseInt(digits, 10) on a non-empty run of digits
RECURSIVE ParseInt(_)
ParseInt(digits) ==
  IF digits = <<>> THEN 0
  ELSE ParseInt(SubSeq(digits, 1, Len(digits) - 1)) * 10 + (digits[Len(digits)] - 48)

\* /Content-Length: (\d+)/i.exec(headerText): the value of the capture group
\* of the leftmost match, or -1 when there is no match
ContentLengthMatch(headerText) ==
  LET folded == [k \in 1..Len(headerText) |-> ToLower(headerText[k])]
      hits == {i \in 0..Len(headerText) :
                 /\ MatchesAt(folded, ContentLengthKey, i)
                 /\ DigitRun(headerText, i + Len(ContentLengthKey)) # <<>>}
      first == CHOOSE i \in hits : \A j \in hits : i <= j
  IN  IF hits = {} THEN -1
      ELSE ParseInt(DigitRun(headerText, first + Len(ContentLengthKey)))

RECURSIVE Flatten(_)
Flatten(chunks) ==
  IF chunks = <<>> THEN <<>> ELSE Head(chunks) \o Flatten(Tail(chunks))

RECURSIVE SumLengths(_)
SumLengths(chunks) ==
  IF chunks = <<>> THEN 0 ELSE Len(Head(chunks)) + SumLengths(Tail(chunks))

\* ------------------------------------------------------------------------
\* Inbound frames.  A frame is named by a small integer (the handle of the
\* MessageEvent's data); FrameData gives its kind and its content.

Frames == 1..9

FrameData(f) ==
  CASE f = 1 ->  \* 0x00 0x80 "Content-Length: 2\r\n" "Path:audio\r\n" 01 02
         [binary |-> TRUE,
          data |-> <<0, 128, 67, 111, 110, 116, 101, 110, 116, 45, 76, 101, 110, 103,
                     116, 104, 58, 32, 50, 13, 10>> \o separator \o <<1, 2>>]
    [] f = 2 ->  \* "content-length: 3\r\n" "Path:audio\r\n" 03
         [binary |-> TRUE,
          data |-> <<99, 111, 110, 116, 101, 110, 116, 45, 108, 101, 110, 103, 116, 104,
                     58, 32, 51, 13, 10>> \o separator \o <<3>>]
    [] f = 3 ->  \* "Content-Length: 9\r\nPath:aud" 07: the separator is cut short
         [binary |-> TRUE,
          data |-> <<67, 111, 110, 116, 101, 110, 116, 45, 76, 101, 110, 103, 116, 104,
                     58, 32, 57, 13, 10, 80, 97, 116, 104, 58, 97, 117, 100, 7>>]
    [] f = 4 ->  \* 0xC3 0xA9 (U+00E9 in UTF-8) "\r\n" "Path:audio\r\n" 04
         [binary |-> TRUE,
          data |-> <<195, 169, 13, 10>> \o separator \o <<4>>]
    [] f = 5 ->  \* "Path:audio.metadata\r\n\r\n" {"o":0}
         [binary |-> FALSE,
          data |-> MetadataMarker \o <<13, 10, 13, 10, 123, 34, 111, 34, 58, 48, 125>>]
    [] f = 6 ->  \* "Path:audio.metadata\r\n\r\n" {"o":5} "\r\n"
         [binary |-> FALSE,
          data |-> MetadataMarker \o <<13, 10, 13, 10, 123, 34, 111, 34, 58, 53, 125, 13, 10>>]
    [] f = 7 ->  \* "Path:audio.metadata\r\n\r\n" {"o":   (truncated JSON)
         [binary |-> FALSE,
          data |-> MetadataMarker \o <<13, 10, 13, 10, 123, 34, 111, 34, 58>>]
    [] f = 8 ->  \* "X-RequestId:7\r\n" "Path:turn.end" "\r\n\r\n"
         [binary |-> FALSE,
          data |-> <<88, 45, 82, 101, 113, 117, 101, 115, 116, 73, 100, 58, 55, 13, 10>>
                   \o TurnEndMarker \o <<13, 10, 13, 10>>]
    [] f = 9 ->  \* "Path:response\r\n\r\n{}"
         [binary |-> FALSE,
          data |-> <<80, 97, 116, 104, 58, 114, 101, 115, 112, 111, 110, 115, 101, 13, 10,
                     13, 10, 123, 125>>]

\* JSON.parse on the texts the frames above can carry: the two well-formed
\* objects parse, every other text of the universe throws a SyntaxError
JsonParse(text) ==
  CASE text = <<123, 34, 111, 34, 58, 48, 125>> -> [ok |-> TRUE, value |-> [o |-> 0]]
    [] text = <<123, 34, 111, 34, 58, 53, 125>> -> [ok |-> TRUE, value |-> [o |-> 5]]
    [] OTHER -> [ok |-> FALSE, value |-> [o |-> -1]]

\* parseSubtitle({ metadata, ...subtitle }): the cue construction is an opaque,
\* pure function of the metadata list it is handed
ParseSubtitle(metadata) == [cuesOf |-> metadata]

\* outputFormat values a caller can pass, in GenerateOptions or to connect()
\* itself (Absent is undefined); NotCalled: connect() has not been called
Absent == "absent"
NotCalled == "not called"
DefaultOutputFormat == "audio-24khz-96kbitrate-mono-mp3"
OutputFormats == {Absent, "", DefaultOutputFormat}

\* mutant of Falsy: the guard only tests for undefined
FalsyOnlyUndefined(outputFormat) == outputFormat = Absent

\* !outputFormat
Falsy(outputFormat) == outputFormat \in {Absent, ""}

\* CloseEvent values the transport can deliver
NoClose == [code |-> 0, reason |-> "none"]
CloseEvents == {[code |-> 1000, reason |-> "done"], [code |-> 1006, reason |-> ""]}

\* ------------------------------------------------------------------------
\* Promises, timers, socket

NoError ==
  [name |-> "none", code |-> 0, reason |-> "", got |-> 0, expected |-> 0, seconds |-> 0]

TimeoutError(seconds) == [NoError EXCEPT !.name = "ConnectionTimeout", !.seconds = seconds]
InvalidConfiguration == [NoError EXCEPT !.name = "InvalidConfiguration"]
TransportError == [NoError EXCEPT !.name = "TransportError"]
MalformedMetadata == [NoError EXCEPT !.name = "MalformedMetadata"]
\* mutant of UnexpectedClose: the message loses the code and reason of the event
UnexpectedCloseWithoutEvent(event) == [NoError EXCEPT !.name = "UnexpectedClose"]

UnexpectedClose(event) ==
  [NoError EXCEPT !.name = "UnexpectedClose", !.code = event.code, !.reason = event.reason]
IncompleteAudio(got, expected) ==
  [NoError EXCEPT !.name = "IncompleteAudio", !.got = got, !.expected = expected]

PendingPromise ==
  [status |-> "pending", error |-> NoError, audio |-> <<>>, subtitle |-> ParseSubtitle(<<>>)]

\* a call that threw before it made a promise
Thrown(error) ==
  [status |-> "thrown", error |-> error, audio |-> <<>>, subtitle |-> ParseSubtitle(<<>>)]

\* mutant of Resolve: a deferred without the settle-once guard
ResolveUnguarded(p, audio, subtitle) ==
  [status |-> "resolved", error |-> NoError, audio |-> audio, subtitle |-> subtitle]

\* resolve(value) of Promise.withResolvers: only a pending promise settles
Resolve(p, audio, subtitle) ==
  IF p.status = "pending"
  THEN [status |-> "resolved", error |-> NoError, audio |-> audio, subtitle |-> subtitle]
  ELSE p

\* mutant of Reject: a deferred without the settle-once guard
RejectUnguarded(p, error) ==
  [status |-> "rejected", error |-> error, audio |-> <<>>, subtitle |-> ParseSubtitle(<<>>)]

\* reject(reason) of Promise.withResolvers: only a pending promise settles
Reject(p, error) ==
  IF p.status = "pending"
  THEN [status |-> "rejected", error |-> error, audio |-> <<>>, subtitle |-> ParseSubtitle(<<>>)]
  ELSE p

\* mutant of ClearTimeout: the timer is left armed
ClearTimeoutForgotten(t) == t

\* clearTimeout: cancels a timer that has not fired yet
ClearTimeout(t) == IF t = "pending" THEN "cleared" ELSE t

\* WebSocket.close(): starts the closing handshake unless already closing
SocketClose(s) == IF s \in {"CONNECTING", "OPEN"} THEN "CLOSING" ELSE s

\* mutant of Push: unshift, the item goes to the front
PushFront(array, item) == <<item>> \o array

\* Array.prototype.push, as a value: the array with the item at its end
Push(array, item) == Append(array, item)

RemoveAt(s, i) == SubSeq(s, 1, i - 1) \o SubSeq(s, i + 1, Len(s))

\* ------------------------------------------------------------------------
\* State

VARIABLES
  pc,              \* generate(): "idle", "connecting" (await connect), "streaming", "failed";
                   \* "direct": the caller called connect() itself, not generate()
  outputFormat,    \* the argument connect() was called with, NotCalled before
  socket,          \* readyState: "NONE", "CONNECTING", "OPEN", "CLOSING", "CLOSED"
  errored,         \* the transport has dispatched its error event
  closeEvent,      \* the CloseEvent dispatched, NoClose before
  wsCreated,       \* number of WebSocket objects constructed
  sent,            \* messages passed to send(), in order
  connectPromise,  \* the promise of connect(), or Thrown(...) if the call threw
  connectTimeout,  \* the 10 s timer of connect(): "none", "pending", "cleared", "fired"
  result,          \* the promise generate() returns
  timeout,         \* the 30 s timer of generate(): "none", "pending", "cleared", "fired"
  audioChunks,
  subtitleChunks,
  rawAudioChunks,
  isAudioComplete,
  expectedLength,
  inflight,        \* frames held by the dealRawAudioChunks calls suspended in arrayBuffer()
  recv,            \* history: frames delivered to the message listener, in order
  drained          \* history: frames whose decode step finished, in order

vars ==
  <<pc, outputFormat, socket, errored, closeEvent, wsCreated, sent, connectPromise, connectTimeout,
    result, timeout, audioChunks, subtitleChunks, rawAudioChunks, isAudioComplete,
    expectedLength, inflight, recv, drained>>

connectVars == <<outputFormat, wsCreated, sent, connectPromise, connectTimeout>>
sessionVars ==
  <<audioChunks, subtitleChunks, rawAudioChunks, isAudioComplete, expectedLength,
    inflight, recv, drained>>

Init ==
  /\ pc = "idle"
  /\ outputFormat = NotCalled
  /\ socket = "NONE"
  /\ errored = FALSE
  /\ closeEvent = NoClose
  /\ wsCreated = 0
  /\ sent = <<>>
  /\ connectPromise = PendingPromise
  /\ connectTimeout = "none"
  /\ result = PendingPromise
  /\ timeout = "none"
  /\ audioChunks = <<>>
  /\ subtitleChunks = <<>>
  /\ rawAudioChunks = <<>>
  /\ isAudioComplete = FALSE
  /\ expectedLength = 0
  /\ inflight = <<>>
  /\ recv = <<>>
  /\ drained = <<>>

\* ------------------------------------------------------------------------
\* connect() and the start of generate()

\* connect(format): throws on a falsy format, otherwise constructs the
\* WebSocket, makes the promise, arms the 10 s timer and adds its listeners
ConnectCall(format) ==
  /\ outputFormat' = format
  /\ IF Falsy(format)
     THEN /\ connectPromise' = Thrown(InvalidConfiguration)
          /\ UNCHANGED <<socket, wsCreated, connectTimeout>>
     ELSE /\ socket' = "CONNECTING"
          /\ wsCreated' = wsCreated + 1
          /\ connectTimeout' = "pending"
          /\ UNCHANGED connectPromise

\* generate(options) up to `await connect(outputFormat)`; an exception of
\* connect() rejects the promise of the async function
Generate(optionsOutputFormat) ==
  /\ pc = "idle"
  /\ LET format == IF optionsOutputFormat = Absent
                   THEN DefaultOutputFormat ELSE optionsOutputFormat
     IN  /\ ConnectCall(format)
         /\ IF Falsy(format)
            THEN /\ pc' = "failed"
                 /\ result' = Reject(result, InvalidConfiguration)
            ELSE /\ pc' = "connecting"
                 /\ UNCHANGED result
  /\ UNCHANGED <<errored, closeEvent, sent, timeout, sessionVars>>

\* the caller calls the exported connect() itself
Connect(format) ==
  /\ pc = "idle"
  /\ pc' = "direct"
  /\ ConnectCall(format)
  /\ UNCHANGED <<errored, closeEvent, sent, result, timeout, sessionVars>>

\* mutant of Open: connect() resolves before it sends the configuration, so
\* the request of generate() goes out first
OpenResolvingBeforeSend ==
  /\ socket = "CONNECTING"
  /\ socket' = "OPEN"
  /\ connectTimeout' = ClearTimeout(connectTimeout)
  /\ connectPromise' = Resolve(connectPromise, <<>>, ParseSubtitle(<<>>))
  /\ IF pc = "connecting" /\ connectPromise.status = "pending"
     THEN /\ pc' = "streaming"
          /\ timeout' = "pending"
          /\ sent' = sent \o <<"ssml", "speech.config">>
     ELSE /\ sent' = Append(sent, "speech.config")
          /\ UNCHANGED <<pc, timeout>>
  /\ UNCHANGED <<outputFormat, errored, closeEvent, wsCreated, result, sessionVars>>

\* the "open" listener of connect(), then, in the same turn, generate() after
\* its await: the 30 s timer, the listeners and socket.send(requestString)
Open ==
  /\ socket = "CONNECTING"
  /\ socket' = "OPEN"
  /\ connectTimeout' = ClearTimeout(connectTimeout)
  /\ connectPromise' = Resolve(connectPromise, <<>>, ParseSubtitle(<<>>))
  /\ IF pc = "connecting" /\ connectPromise.status = "pending"
     THEN /\ pc' = "streaming"
          /\ timeout' = "pending"
          /\ sent' = sent \o <<"speech.config", "ssml">>
     ELSE /\ sent' = Append(sent, "speech.config")
          /\ UNCHANGED <<pc, timeout>>
  /\ UNCHANGED <<outputFormat, errored, closeEvent, wsCreated, result, sessionVars>>

\* the 10 s timer of connect() fires
ConnectTimeout ==
  /\ connectTimeout = "pending"
  /\ connectTimeout' = "fired"
  /\ socket' = SocketClose(socket)
  /\ connectPromise' = Reject(connectPromise, TimeoutError(ConnectTimeoutSeconds))
  /\ IF pc = "connecting" /\ connectPromise.status = "pending"
     THEN /\ pc' = "failed"
          /\ result' = Reject(result, TimeoutError(ConnectTimeoutSeconds))
     ELSE UNCHANGED <<pc, result>>
  /\ UNCHANGED <<outputFormat, errored, closeEvent, wsCreated, sent, timeout, sessionVars>>

\* ------------------------------------------------------------------------
\* generate(): timer and transport listeners

\* the 30 s timer of generate() fires
Timeout ==
  /\ timeout = "pending"
  /\ timeout' = "fired"
  /\ socket' = SocketClose(socket)
  /\ result' = Reject(result, TimeoutError(GenerateTimeoutSeconds))
  /\ UNCHANGED <<pc, errored, closeEvent, connectVars, sessionVars>>

\* mutant of Close: the listener cancels the deadline timer but does not reject
CloseWithoutReject(event) ==
  /\ socket \in {"CONNECTING", "OPEN", "CLOSING"}
  /\ socket' = "CLOSED"
  /\ closeEvent' = event
  /\ IF pc = "streaming"
     THEN timeout' = ClearTimeout(timeout)
     ELSE UNCHANGED timeout
  /\ UNCHANGED <<pc, errored, connectVars, sessionVars, result>>

\* the transport dispatches "close"; connect() has no close listener
Close(event) ==
  /\ socket \in {"CONNECTING", "OPEN", "CLOSING"}
  /\ socket' = "CLOSED"
  /\ closeEvent' = event
  /\ IF pc = "streaming"
     THEN /\ result' = IF ~isAudioComplete
                       THEN Reject(result, UnexpectedClose(event)) ELSE result
          /\ timeout' = ClearTimeout(timeout)
     ELSE UNCHANGED <<result, timeout>>
  /\ UNCHANGED <<pc, errored, connectVars, sessionVars>>

\* the transport dispatches "error" (once, the connection is then failing):
\* the listener of connect() runs, then the one of generate() if registered
Error ==
  /\ socket \in {"CONNECTING", "OPEN", "CLOSING"}
  /\ ~errored
  /\ errored' = TRUE
  /\ socket' = "CLOSING"
  /\ connectTimeout' = ClearTimeout(connectTimeout)
  /\ connectPromise' = Reject(connectPromise, TransportError)
  /\ IF pc = "streaming"
     THEN /\ timeout' = ClearTimeout(timeout)
          /\ result' = Reject(result, TransportError)
          /\ UNCHANGED pc
     ELSE IF pc = "connecting" /\ connectPromise.status = "pending"
     THEN /\ pc' = "failed"
          /\ result' = Reject(result, TransportError)
          /\ UNCHANGED timeout
     ELSE UNCHANGED <<pc, result, timeout>>
  /\ UNCHANGED <<outputFormat, closeEvent, wsCreated, sent, sessionVars>>

\* ------------------------------------------------------------------------
\* generate(): the message listener and dealRawAudioChunks

\* the message listener after `await dealRawAudioChunks()` returned, with the
\* fragment list and expected length the drain left behind
TurnEndTail(chunks, expected) ==
  LET totalLength == SumLengths(chunks)
  IN  IF expected > 0 /\ totalLength < expected
      THEN /\ result' = Reject(result, IncompleteAudio(totalLength, expected))
           /\ UNCHANGED <<isAudioComplete, timeout, socket>>
      ELSE /\ isAudioComplete' = TRUE
           /\ timeout' = ClearTimeout(timeout)
           /\ result' = Resolve(result, Flatten(chunks), ParseSubtitle(subtitleChunks))
           /\ socket' = SocketClose(socket)

\* a message event can be delivered while the socket is OPEN
CanReceive ==
  /\ pc = "streaming"
  /\ socket = "OPEN"
  /\ Len(recv) < MaxFrames

\* typeof message.data !== "string"
OnBinary(f) ==
  /\ CanReceive
  /\ FrameData(f).binary
  /\ recv' = Append(recv, f)
  /\ rawAudioChunks' = Push(rawAudioChunks, f)
  /\ UNCHANGED <<pc, socket, errored, closeEvent, connectVars, result, timeout,
                 audioChunks, subtitleChunks, isAudioComplete, expectedLength,
                 inflight, drained>>

\* mutant of OnMetadata: the SyntaxError is swallowed, the frame is skipped
OnMetadataSwallowingErrors(f) ==
  /\ CanReceive
  /\ ~FrameData(f).binary
  /\ Includes(FrameData(f).data, MetadataMarker)
  /\ recv' = Append(recv, f)
  /\ LET jsonString == Trim(SplitSecond(FrameData(f).data, MetadataMarker))
         json == JsonParse(jsonString)
     IN  IF json.ok
         THEN subtitleChunks' = Push(subtitleChunks, json.value)
         ELSE UNCHANGED subtitleChunks
  /\ UNCHANGED <<pc, socket, errored, closeEvent, connectVars, audioChunks, timeout, result,
                 rawAudioChunks, isAudioComplete, expectedLength, inflight, drained>>

\* message.data.includes("Path:audio.metadata"); a SyntaxError of JSON.parse
\* lands in the catch block
OnMetadata(f) ==
  /\ CanReceive
  /\ ~FrameData(f).binary
  /\ Includes(FrameData(f).data, MetadataMarker)
  /\ recv' = Append(recv, f)
  /\ LET jsonString == Trim(SplitSecond(FrameData(f).data, MetadataMarker))
         json == JsonParse(jsonString)
     IN  IF json.ok
         THEN /\ subtitleChunks' = Push(subtitleChunks, json.value)
              /\ UNCHANGED <<timeout, result>>
         ELSE /\ timeout' = ClearTimeout(timeout)
              /\ result' = Reject(result, MalformedMetadata)
              /\ UNCHANGED subtitleChunks
  /\ UNCHANGED <<pc, socket, errored, closeEvent, connectVars, audioChunks,
                 rawAudioChunks, isAudioComplete, expectedLength, inflight, drained>>

\* message.data.includes("Path:turn.end"): dealRawAudioChunks() either finds
\* the queue empty and returns, or shifts the first frame and suspends
OnTurnEnd(f) ==
  /\ CanReceive
  /\ ~FrameData(f).binary
  /\ ~Includes(FrameData(f).data, MetadataMarker)
  /\ Includes(FrameData(f).data, TurnEndMarker)
  /\ recv' = Append(recv, f)
  /\ IF rawAudioChunks = <<>>
     THEN /\ TurnEndTail(audioChunks, expectedLength)
          /\ UNCHANGED <<rawAudioChunks, inflight>>
     ELSE /\ inflight' = Append(inflight, Head(rawAudioChunks))
          /\ rawAudioChunks' = Tail(rawAudioChunks)
          /\ UNCHANGED <<socket, result, timeout, isAudioComplete>>
  /\ UNCHANGED <<pc, errored, closeEvent, connectVars, audioChunks, subtitleChunks,
                 expectedLength, drained>>

\* mutant of OnOtherText: an unrecognised text frame is treated as fatal
OnOtherTextFatal(f) ==
  /\ CanReceive
  /\ ~FrameData(f).binary
  /\ ~Includes(FrameData(f).data, MetadataMarker)
  /\ ~Includes(FrameData(f).data, TurnEndMarker)
  /\ recv' = Append(recv, f)
  /\ timeout' = ClearTimeout(timeout)
  /\ result' = Reject(result, MalformedMetadata)
  /\ UNCHANGED <<pc, socket, errored, closeEvent, connectVars,
                 audioChunks, subtitleChunks, rawAudioChunks, isAudioComplete,
                 expectedLength, inflight, drained>>

\* a text frame with neither marker
OnOtherText(f) ==
  /\ CanReceive
  /\ ~FrameData(f).binary
  /\ ~Includes(FrameData(f).data, MetadataMarker)
  /\ ~Includes(FrameData(f).data, TurnEndMarker)
  /\ recv' = Append(recv, f)
  /\ UNCHANGED <<pc, socket, errored, closeEvent, connectVars, result, timeout,
                 audioChunks, subtitleChunks, rawAudioChunks, isAudioComplete,
                 expectedLength, inflight, drained>>

\* mutant of ChunksAfter: a frame without the separator is kept whole
ChunksAfterKeepingAll(chunks, bytes) ==
  LET binaryString == TextDecode(bytes)
      index == IndexOf(binaryString, separator)
  IN  IF index # -1
      THEN Push(chunks, SubFrom(bytes, index + Len(separator)))
      ELSE Push(chunks, bytes)

\* the fragment list after one frame went through the body of the while loop
ChunksAfter(chunks, bytes) ==
  LET binaryString == TextDecode(bytes)
      index == IndexOf(binaryString, separator)
  IN  IF index # -1
      THEN Push(chunks, SubFrom(bytes, index + Len(separator)))
      ELSE chunks

\* expectedLength after one frame went through the body of the while loop
ExpectedAfter(expected, bytes) ==
  LET binaryString == TextDecode(bytes)
      index == IndexOf(binaryString, separator)
      contentLengthMatch == ContentLengthMatch(SubTo(binaryString, index))
  IN  IF index # -1 /\ contentLengthMatch # -1
      THEN expected + contentLengthMatch
      ELSE expected

\* blob.arrayBuffer() of the i-th suspended drain resolves: the rest of the
\* loop body runs, then the loop either shifts the next frame and suspends
\* again or ends, and the message listener finishes in the same turn
ArrayBufferResolved(i) ==
  /\ i \in 1..Len(inflight)
  /\ LET bytes == FrameData(inflight[i]).data
         chunks == ChunksAfter(audioChunks, bytes)
         expected == ExpectedAfter(expectedLength, bytes)
     IN  /\ audioChunks' = chunks
         /\ expectedLength' = expected
         /\ drained' = Append(drained, inflight[i])
         /\ IF rawAudioChunks # <<>>
            THEN /\ inflight' = [inflight EXCEPT ![i] = Head(rawAudioChunks)]
                 /\ rawAudioChunks' = Tail(rawAudioChunks)
                 /\ UNCHANGED <<socket, result, timeout, isAudioComplete>>
            ELSE /\ inflight' = RemoveAt(inflight, i)
                 /\ TurnEndTail(chunks, expected)
                 /\ UNCHANGED rawAudioChunks
  /\ UNCHANGED <<pc, errored, closeEvent, connectVars, subtitleChunks, recv>>

\* ------------------------------------------------------------------------

Next ==
  \/ \E o \in OutputFormats : Generate(o)
  \/ \E o \in OutputFormats : Connect(o)
  \/ Open
  \/ ConnectTimeout
  \/ Timeout
  \/ \E e \in CloseEvents : Close(e)
  \/ Error
  \/ \E f \in Frames : OnBinary(f)
  \/ \E f \in Frames : OnMetadata(f)
  \/ \E f \in Frames : OnTurnEnd(f)
  \/ \E f \in Frames : OnOtherText(f)
  \/ \E i \in 1..Len(inflight) : ArrayBufferResolved(i)

Spec == Init /\ [][Next]_vars

\* The runs on which progress is checked: setTimeout fires a timer that is
\* not cleared, and a pending blob.arrayBuffer() resolves.  The transport
\* owes nothing: it may stay silent for ever.  Progress is checked on the
\* runs with at most MaxLiveFrames inbound frames.
DecodeStep == \E i \in 1..Len(inflight) : ArrayBufferResolved(i)

LiveNext == Next /\ Len(recv') <= MaxLiveFrames

\* weak fairness of DecodeStep, with ENABLED <<DecodeStep>>_vars written out:
\* the step is enabled exactly when a drain is suspended
DecodeFairness == []<>(inflight = <<>>) \/ []<><<DecodeStep>>_vars

Fairness == WF_vars(Timeout) /\ DecodeFairness

LiveSpec == Init /\ [][LiveNext]_vars /\ Fairness

\* ------------------------------------------------------------------------
\* Vocabulary of the properties: what the frames received so far contain,
\* read off the frames themselves (bytes), not off the program's variables

Last(s) == s[Len(s)]

IsBinaryFrame(f) == FrameData(f).binary
IsMetadataFrame(f) == ~FrameData(f).binary /\ Includes(FrameData(f).data, MetadataMarker)
IsTurnEndFrame(f) ==
  /\ ~FrameData(f).binary
  /\ ~Includes(FrameData(f).data, MetadataMarker)
  /\ Includes(FrameData(f).data, TurnEndMarker)

\* the separator occurs in the bytes of the frame
HasSeparator(f) == IsBinaryFrame(f) /\ IndexOf(FrameData(f).data, separator) # -1

\* the bytes of a binary frame that follow its separator
PayloadOf(f) ==
  SubFrom(FrameData(f).data, IndexOf(FrameData(f).data, separator) + Len(separator))

\* the Content-Length a binary frame declares in its header block, 0 if none
DeclaredLengthOf(f) ==
  LET header == SubTo(FrameData(f).data, IndexOf(FrameData(f).data, separator))
      declared == ContentLengthMatch(TextDecode(header))
  IN  IF declared = -1 THEN 0 ELSE declared

\* payloads of the separator-bearing binary frames of a frame list, in order
RECURSIVE PayloadsOf(_)
PayloadsOf(frames) ==
  IF frames = <<>> THEN <<>>
  ELSE IF HasSeparator(Head(frames))
       THEN <<PayloadOf(Head(frames))>> \o PayloadsOf(Tail(frames))
       ELSE PayloadsOf(Tail(frames))

\* sum of the Content-Length values declared by the frames of a frame list
RECURSIVE DeclaredLength(_)
DeclaredLength(frames) ==
  IF frames = <<>> THEN 0
  ELSE (IF HasSeparator(Head(frames)) THEN DeclaredLengthOf(Head(frames)) ELSE 0)
       + DeclaredLength(Tail(frames))

\* the JSON body of a metadata frame
MetadataBodyOf(f) == JsonParse(Trim(SplitSecond(FrameData(f).data, MetadataMarker)))

\* the boundary events of the well-formed metadata frames of a frame list, in order
RECURSIVE MetadataOf(_)
MetadataOf(frames) ==
  IF frames = <<>> THEN <<>>
  ELSE IF IsMetadataFrame(Head(frames)) /\ MetadataBodyOf(Head(frames)).ok
       THEN <<MetadataBodyOf(Head(frames)).value>> \o MetadataOf(Tail(frames))
       ELSE MetadataOf(Tail(frames))

CountTurnEnd(frames) == Cardinality({i \in 1..Len(frames) : IsTurnEndFrame(frames[i])})

\* this step settles the result as a success
Succeeds == result.status = "pending" /\ result'.status = "resolved"

\* this step runs the length check of the message listener (the code after
\* `await dealRawAudioChunks()`): a termination frame found the queue empty,
\* or a suspended drain emptied the queue
RunsLengthCheck ==
  \/ /\ Len(recv') > Len(recv)
     /\ IsTurnEndFrame(Last(recv'))
     /\ rawAudioChunks = <<>>
  \/ Len(inflight') < Len(inflight)

\* ------------------------------------------------------------------------
\* Properties

\* C1: the result of generate() is settled at most once and, once settled,
\* never changes, whatever frames, close/error events or timer expiries follow.
C1_SettledOnce == [][result.status # "pending" => result' = result]_vars

\* C1 witness: a success that was followed by a transport error and by the
\* close event
C1_Witness ==
  /\ result.status = "resolved"
  /\ result.audio # <<>>
  /\ errored
  /\ closeEvent # NoClose

\* C2: when the result resolves after exactly one termination frame, received
\* last, its audio is the concatenation, in arrival order, of the bytes that
\* follow the separator in each binary frame received.
C2_AudioIsPayloadConcatenation ==
  [][(Succeeds /\ CountTurnEnd(recv') = 1 /\ IsTurnEndFrame(Last(recv')))
       => result'.audio = Flatten(PayloadsOf(recv'))]_vars

\* C3: the metadata list handed to parseSubtitle on success is the list of the
\* parsed metadata frames received, in arrival order.
C3_MetadataInArrivalOrder ==
  [][Succeeds => result'.subtitle = ParseSubtitle(MetadataOf(recv'))]_vars

\* C3 witness: a success whose metadata frames were separated by a binary
\* frame and arrived as {"o":5} before {"o":0}
C3_Witness ==
  /\ result.status = "resolved"
  /\ Len(recv) >= 4
  /\ recv[1] = 6 /\ IsBinaryFrame(recv[2]) /\ recv[3] = 5
  /\ result.subtitle.cuesOf = <<[o |-> 5], [o |-> 0]>>

\* C4: when the length check of a termination frame runs on a session that is
\* not settled yet, with L the sum of the Content-Length values declared by
\* the binary frames received and A the number of reassembled bytes, the
\* session fails with IncompleteAudio(A, L) if L > 0 and A < L, and succeeds
\* otherwise.
C4_LengthValidation ==
  [][(RunsLengthCheck /\ result.status = "pending")
       => LET L == DeclaredLength(recv')
              A == SumLengths(audioChunks')
          IN  IF L > 0 /\ A < L
              THEN /\ result'.status = "rejected"
                   /\ result'.error = IncompleteAudio(A, L)
              ELSE result'.status = "resolved"]_vars

\* C5: a binary frame without the separator is dropped when its decode step
\* finishes: the fragment list and the expected length stay as they were, and
\* if the session fails in that step it is the IncompleteAudio failure that
\* the fragments and expected length of the other frames already implied.
C5_MissingSeparatorDiscarded ==
  [][(Len(drained') > Len(drained) /\ ~HasSeparator(Last(drained')))
       => /\ audioChunks' = audioChunks
          /\ expectedLength' = expectedLength
          /\ (result' # result =>
                \/ result'.status = "resolved"
                \/ /\ expectedLength > 0
                   /\ SumLengths(audioChunks) < expectedLength
                   /\ result'.error =
                        IncompleteAudio(SumLengths(audioChunks), expectedLength))]_vars

\* C5 witness: the frame with the truncated separator was drained between two
\* well-formed frames and the session succeeded with the audio of those two
C5_Witness ==
  /\ drained = <<1, 3, 4>>
  /\ Len(audioChunks) = 2
  /\ audioChunks[1] = <<1, 2>>
  /\ expectedLength = 2
  /\ result.status = "resolved"

\* C6: once the 30 s deadline has expired the session has failed with
\* ConnectionTimeout and the channel has been force-closed.
C6_TimeoutFails ==
  timeout = "fired"
    => /\ result.status = "rejected"
       /\ result.error = TimeoutError(GenerateTimeoutSeconds)
       /\ socket \in {"CLOSING", "CLOSED"}

\* C7: the session is never settled while its deadline timer is still pending.
C7_TimerCancelledWhenSettled == result.status # "pending" => timeout # "pending"

\* C8: the session is never Failed while the channel is still open.
C8_FailureClosesChannel == result.status = "rejected" => socket # "OPEN"

\* C9: a close event on a session that is not settled settles it as
\* UnexpectedClose with the code and reason of the event; a close event after
\* completion leaves the result as it is.
C9_UnexpectedClose ==
  [][(pc = "streaming" /\ closeEvent = NoClose /\ closeEvent' # NoClose)
       => /\ result.status = "pending"
             => /\ result'.status = "rejected"
                /\ result'.error.name = "UnexpectedClose"
                /\ result'.error.code = closeEvent'.code
                /\ result'.error.reason = closeEvent'.reason
          /\ (isAudioComplete \/ result.status = "resolved") => result' = result]_vars

\* C9 witness: the channel closed with code 1006 while a drain was suspended
C9_Witness ==
  /\ result.status = "rejected"
  /\ result.error.name = "UnexpectedClose"
  /\ result.error.code = 1006
  /\ inflight # <<>>
  /\ ~isAudioComplete

\* C10: an error event on a session that is not settled rejects it with
\* TransportError at once; from then on the outcome stays that rejection, also
\* when a suspended drain finishes, and no second channel or request is made.
C10_TransportError ==
  [][/\ (pc = "streaming" /\ ~errored /\ errored' /\ result.status = "pending")
          => (result'.status = "rejected" /\ result'.error = TransportError)
     /\ (errored /\ result.status = "rejected" /\ result.error = TransportError)
          => result' = result
     /\ wsCreated' <= 1
     /\ Len(SelectSeq(sent', LAMBDA m : m = "ssml")) <= 1]_vars

\* C10 witness: the error arrived while a drain was suspended, the drain then
\* finished and passed the length check, and the result is still the rejection
C10_Witness ==
  /\ errored
  /\ result.status = "rejected"
  /\ result.error = TransportError
  /\ drained # <<>>
  /\ inflight = <<>>
  /\ isAudioComplete

\* a metadata frame whose JSON payload does not parse
IsMalformedMetadataFrame(f) == IsMetadataFrame(f) /\ ~MetadataBodyOf(f).ok

\* C11: a metadata frame whose JSON does not parse adds nothing to the metadata
\* list and, if the session is not settled, settles it as MalformedMetadata;
\* once such a frame has been received the session never becomes a success.
C11_MalformedMetadataFatal ==
  [][/\ (Len(recv') > Len(recv) /\ IsMalformedMetadataFrame(Last(recv')))
          => /\ subtitleChunks' = subtitleChunks
             /\ result.status = "pending"
                  => (result'.status = "rejected" /\ result'.error = MalformedMetadata)
     /\ ((\E i \in 1..Len(recv) : IsMalformedMetadataFrame(recv[i]))
           /\ result.status # "resolved")
          => result'.status # "resolved"]_vars

\* C11 witness: after the malformed frame a termination frame arrived and its
\* length check passed, and the session is still Failed(MalformedMetadata)
C11_Witness ==
  /\ \E i \in 1..Len(recv) :
       /\ IsMalformedMetadataFrame(recv[i])
       /\ \E j \in (i + 1)..Len(recv) : IsTurnEndFrame(recv[j])
  /\ isAudioComplete
  /\ result.status = "rejected"
  /\ result.error = MalformedMetadata

\* the three events connect() listens to, as steps
OpenFires == socket = "CONNECTING" /\ socket' = "OPEN"
ConnectTimerFires == connectTimeout = "pending" /\ connectTimeout' = "fired"
ErrorFires == ~errored /\ errored'

\* C12: the promise of connect() is settled by the first of open (resolved),
\* expiry of the 10 s timer (ConnectionTimeout, channel closed) and error
\* (TransportError); no later event changes it, and once it is settled by
\* open or by error the 10 s timer is not pending.
C12_ConnectFirstEventWins ==
  [][/\ connectPromise.status # "pending" => connectPromise' = connectPromise
     /\ (connectPromise.status = "pending" /\ OpenFires)
          => connectPromise'.status = "resolved"
     /\ (connectPromise.status = "pending" /\ ConnectTimerFires)
          => /\ connectPromise'.status = "rejected"
             /\ connectPromise'.error = TimeoutError(ConnectTimeoutSeconds)
             /\ socket' \in {"CLOSING", "CLOSED"}
     /\ (connectPromise.status = "pending" /\ ErrorFires)
          => /\ connectPromise'.status = "rejected"
             /\ connectPromise'.error = TransportError
     /\ (connectPromise' # connectPromise /\ outputFormat # NotCalled)
          => (OpenFires \/ ConnectTimerFires \/ ErrorFires)
     /\ (connectPromise'.status = "resolved" \/ connectPromise'.error = TransportError)
          => connectTimeout' # "pending"]_vars

\* C12 witness: the timer settled connect(), then the transport reported an
\* error and closed, and the outcome is still the timeout
C12_Witness ==
  /\ connectPromise.status = "rejected"
  /\ connectPromise.error = TimeoutError(ConnectTimeoutSeconds)
  /\ connectTimeout = "fired"
  /\ errored
  /\ closeEvent # NoClose

\* C13: a connect() call with an empty or absent outputFormat has thrown
\* InvalidConfiguration: no WebSocket was constructed, no timer armed, nothing sent.
C13_InvalidConfiguration ==
  (outputFormat \in {Absent, ""})
    => /\ connectPromise = Thrown(InvalidConfiguration)
       /\ wsCreated = 0
       /\ socket = "NONE"
       /\ connectTimeout = "none"
       /\ sent = <<>>
       /\ pc = "failed" => (result.status = "rejected" /\ result.error = InvalidConfiguration)

\* C13 witness: generate() was called with outputFormat "" and is rejected
C13_Witness ==
  /\ outputFormat = ""
  /\ pc = "failed"
  /\ result.error = InvalidConfiguration
  /\ wsCreated = 0

\* this step delivers a frame to the message listener
Receives == Len(recv') > Len(recv)

\* C14: a frame that arrives after the session is settled leaves the raw
\* queue, the fragment list, the expected length, the metadata list and the
\* completion flag unchanged and starts no drain.
C14_NoProcessingAfterTerminal ==
  [][(result.status # "pending" /\ Receives)
       => UNCHANGED <<rawAudioChunks, audioChunks, expectedLength, subtitleChunks,
                      isAudioComplete, inflight>>]_vars

\* C15: a drain of the binary queue is only ever started when no drain is
\* suspended and none has run before, so at most one drain is ever in flight.
C15_SingleFinalization ==
  [][Len(inflight') > Len(inflight) => (inflight = <<>> /\ drained = <<>>)]_vars

\* the binary frames of a frame list, in order
BinaryFramesOf(frames) == SelectSeq(frames, IsBinaryFrame)

\* C16: when the session settles as a success, the raw queue is empty, no
\* frame is suspended in its decode step, every binary frame received has been
\* decoded, and the fragment list and expected length account for every
\* separator-bearing frame received.
C16_CompletedMeansDrained ==
  [][Succeeds
       => /\ rawAudioChunks' = <<>>
          /\ inflight' = <<>>
          /\ Len(drained') = Len(BinaryFramesOf(recv'))
          /\ Len(audioChunks') = Len(PayloadsOf(recv'))
          /\ expectedLength' = DeclaredLength(recv')]_vars

\* a text frame that carries neither marker
IsOtherTextFrame(f) ==
  /\ ~FrameData(f).binary
  /\ ~Includes(FrameData(f).data, MetadataMarker)
  /\ ~Includes(FrameData(f).data, TurnEndMarker)

\* C17: a text frame with neither marker changes nothing: raw queue, fragment
\* list, expected length, metadata list, completion flag, suspended drains,
\* deadline timer and result stay as they were.
C17_OtherTextIgnored ==
  [][(Receives /\ IsOtherTextFrame(Last(recv')))
       => UNCHANGED <<rawAudioChunks, audioChunks, expectedLength, subtitleChunks,
                      isAudioComplete, inflight, timeout, result, socket>>]_vars

\* C17 witness: an unrecognised text frame arrived while a drain was
\* suspended, and the session then succeeded with the audio of the binary frame
C17_Witness ==
  /\ recv = <<1, 8, 9>>
  /\ result.status = "resolved"
  /\ result.audio = <<1, 2>>

\* C18: the messages sent are, in order, nothing before the open signal, the
\* configuration message once the channel has opened, and then at most one
\* synthesis request, which is only sent when connect() resolved.
C18_OutboundOrder ==
  /\ sent \in {<<>>, <<"speech.config">>, <<"speech.config", "ssml">>}
  /\ (sent # <<>>) <=> (connectPromise.status = "resolved")
  /\ (sent # <<>>) => socket \in {"OPEN", "CLOSING", "CLOSED"}
  /\ (Len(sent) = 2) <=> (pc = "streaming")
  /\ connectPromise.status \in {"rejected", "thrown"} => sent = <<>>

\* C18 witness: both messages went out and the session has since failed
C18_Witness ==
  /\ sent = <<"speech.config", "ssml">>
  /\ connectPromise.status = "resolved"
  /\ result.status = "rejected"

\* C19: under fairness of the deadline timer and of the decode step, a session
\* that has started (connect() resolved, listeners registered) eventually has
\* its result resolved or rejected.
\* The timer is cancelled only when the result is settled, which is why the
\* deadline is what guarantees progress.
C19_EventuallySettles ==
  /\ (pc = "streaming") ~> (result.status # "pending")
  /\ [](timeout = "cleared" => result.status # "pending")

\* C19 witness: the transport went silent while a drain was suspended, and the
\* deadline timer settled the session
C19_Witness ==
  /\ pc = "streaming"
  /\ timeout = "fired"
  /\ result.status = "rejected"
  /\ result.error = TimeoutError(GenerateTimeoutSeconds)
  /\ inflight # <<>>

\* C20: the completion flag and the result agree in every reachable state: the
\* flag is true only if the result was resolved, so a session is never marked
\* complete while its result is rejected.
C20_FlagAgreesWithResult == isAudioComplete => result.status = "resolved"

====
